---- MODULE Spec2Model ----
(***************************************************************************)
(* Usage analytics and alerting engine of ngx.crm:                         *)
(*   backend/app/services/intelligent_alerts.py  (IntelligentAlertsService)*)
(*   backend/app/apis/agent_usage/__init__.py    (ConnectionManager)       *)
(* Time is counted in minutes.  Python None is the string "None".          *)
(***************************************************************************)
EXTENDS Integers, Sequences, FiniteSets, TLC

VARIABLES
    \* ---- IntelligentAlertsService ----
    alerts,             \* the Alert objects ever created; an alert's id is its index (uuid4)
    active_alerts,      \* self.active_alerts: ids in dict insertion order
    alert_history,      \* self.alert_history: ids in list order
    notification_queue, \* self.notification_queue: items {alert, channels}
    usage_alerts,       \* rows of the table usage_alerts
    now,                \* datetime.now(timezone.utc), in minutes
    db_errors,          \* number of datastore failures so far
    tpc,                \* per caller: position inside _trigger_alert
    targs,              \* per caller: arguments of the running _trigger_alert call
    talert,             \* per caller: id of the local variable alert
    ret,                \* the last return value of acknowledge_alert / resolve_alert
    resolved_ok,        \* ids for which resolve_alert returned True
    \* ---- _check_usage_limits ----
    upc, u_rows, u_idx, month, u_triggered,
    \* ---- _check_agent_performance ----
    ppc, p_idx, p_degraded,
    \* ---- _send_notifications ----
    npc, n_item, n_idx, sent_channels, attempts,
    dispatched,         \* history: the calls of _send_notifications that have ended
    \* ---- ConnectionManager / websocket_endpoint ----
    active_connections, conn_state, bpc, b_idx, b_cur, sends, raised, b_start,
    \* ---- monitor loops ----
    is_running, lpc, starts,
    \* ---- receive_usage_event ----
    agent_usage_events, background_tasks, response,
    \* ---- detect_usage_anomalies / _check_usage_anomalies ----
    d_data, anomalies, apc, a_idx,
    \* ---- peak hours of calculate_usage_metrics / analyze_agent_performance ----
    h_rows, peak_hours, hpc, m_events, agent_breakdown, tier_breakdown, avg_response_time,
    \* ---- GenesisWebhookService.handle_webhook_failure ----
    wpc, w_call, w_calls, w_sleeps, w_returned, dead_letter,
    \* ---- one cycle of a polling monitor and the sleep that follows it ----
    cyc, cycles

alertVars  == <<alerts, active_alerts, alert_history, notification_queue, usage_alerts,
                now, db_errors, tpc, targs, talert, ret, resolved_ok>>
usageVars  == <<upc, u_rows, u_idx, month, u_triggered>>
perfVars   == <<ppc, p_idx, p_degraded>>
notifyVars == <<npc, n_item, n_idx, sent_channels, attempts, dispatched>>
connVars   == <<active_connections, conn_state, bpc, b_idx, b_cur, sends, raised, b_start>>
loopVars   == <<is_running, lpc, starts>>
ingestVars  == <<agent_usage_events, background_tasks, response>>
anomalyVars == <<d_data, anomalies, apc, a_idx>>
peakVars    == <<h_rows, peak_hours, hpc, m_events, agent_breakdown, tier_breakdown,
                 avg_response_time>>
webhookVars == <<wpc, w_call, w_calls, w_sleeps, w_returned, dead_letter>>
cycleVars == <<cyc, cycles>>
vars == <<alertVars, usageVars, perfVars, notifyVars, connVars, loopVars,
          ingestVars, anomalyVars, peakVars, webhookVars, cycleVars>>

None == "None"
NoTime == 0 - 1     \* None in a field that holds a datetime

(***************************************************************************)
(* Bounds of the model.                                                    *)
(***************************************************************************)
MaxAlerts   == 2    \* Alert objects created in one run
TickMinutes == 50   \* the clock advances in steps of this many minutes
MaxTicks    == 2    \* number of clock steps in one run
MaxDbErrors == 1    \* datastore failures in one run
MaxConns    == 3    \* WebSocket clients
MaxRows     == 2    \* rows returned by the usage query of one cycle
MaxStarts   == 1    \* calls of start_monitoring that create tasks
MaxEvents   == 2    \* rows of agent_usage_events written in one run
MaxDays     == 8    \* calendar dates in the 7-day window of the detector
MaxAnomalies == 2   \* anomalies returned by the detector in one cycle
MaxHourRows == 4    \* grouped rows returned by the metrics query
MaxMetricEvents == 3 \* usage events in the window of the metrics query
MaxWebhookCalls == 3 \* calls of handle_webhook_failure
MaxCycles == 4       \* cycles of the polling monitors
MaxRestarts == 2     \* calls of start_monitoring that create tasks, where restarts matter

(***************************************************************************)
(* Helpers on sequences.                                                   *)
(***************************************************************************)
Range(s) == {s[i] : i \in 1..Len(s)}

\* list.remove(x): deletes the first occurrence of x (the caller checks x is there)
RemoveFirst(s, x) ==
    LET i == CHOOSE k \in 1..Len(s) : s[k] = x /\ \A j \in 1..(k-1) : s[j] # x
    IN  SubSeq(s, 1, i-1) \o SubSeq(s, i+1, Len(s))

(***************************************************************************)
(* AlertChannel, AlertRule and the registry of _initialize_default_rules.  *)
(***************************************************************************)
AlertChannel == {"email", "slack", "webhook", "dashboard", "sms"}

AlertRuleIds == {"usage_approaching", "usage_exceeded", "churn_risk",
                 "upgrade_opportunity", "anomaly", "user_inactive"}

alert_rules == [id \in AlertRuleIds |->
    CASE id = "usage_approaching" ->
           [alert_type |-> "usage_limit_approaching", severity |-> "medium",
            channels |-> <<"dashboard", "email">>, cooldown_minutes |-> 120, enabled |-> TRUE]
      [] id = "usage_exceeded" ->
           [alert_type |-> "usage_limit_exceeded", severity |-> "critical",
            channels |-> <<"dashboard", "email", "slack">>, cooldown_minutes |-> 60, enabled |-> TRUE]
      [] id = "churn_risk" ->
           [alert_type |-> "churn_risk", severity |-> "high",
            channels |-> <<"dashboard", "slack">>, cooldown_minutes |-> 1440, enabled |-> TRUE]
      [] id = "upgrade_opportunity" ->
           [alert_type |-> "upgrade_opportunity", severity |-> "low",
            channels |-> <<"dashboard">>, cooldown_minutes |-> 2880, enabled |-> TRUE]
      [] id = "anomaly" ->
           [alert_type |-> "anomaly_detected", severity |-> "medium",
            channels |-> <<"dashboard", "slack">>, cooldown_minutes |-> 180, enabled |-> TRUE]
      [] id = "user_inactive" ->
           [alert_type |-> "user_inactive", severity |-> "medium",
            channels |-> <<"dashboard", "email">>, cooldown_minutes |-> 1440, enabled |-> TRUE]]

\* self.alert_rules.get(rule_id), followed by "if not rule or not rule.enabled: return"
rule_usable(rule_id) == rule_id \in DOMAIN alert_rules /\ alert_rules[rule_id].enabled

\* user_id or agent_id or 'global'
subject_of(user_id, agent_id) ==
    IF user_id # None THEN user_id ELSE IF agent_id # None THEN agent_id ELSE "global"

\* alert_key = f"{rule_id}_{user_id or agent_id or 'global'}"
alert_key(rule_id, user_id, agent_id) == rule_id \o "_" \o subject_of(user_id, agent_id)

(***************************************************************************)
(* _trigger_alert (lines 452-503), cut at its suspension points:           *)
(*   "idle" -> "cooldown" : the call, up to the query of _is_in_cooldown   *)
(*   "cooldown" -> "save" : result of the query, Alert created and stored  *)
(*                          in memory, up to the INSERT of _save_alert_to_db*)
(*   "save" -> "idle"     : INSERT done (or failed), item enqueued, return *)
(***************************************************************************)
Callers == {"m1", "m2"}
Tasks   == Callers \cup {"usage", "performance", "anomaly"}

NoArgs == [rule_id |-> None, user_id |-> None, agent_id |-> None]

\* what a datastore access can do: succeed, or fail while the error budget lasts
DbOutcomes == {TRUE} \cup (IF db_errors < MaxDbErrors THEN {FALSE} ELSE {})
DbCount(ok) == IF ok THEN db_errors ELSE db_errors + 1

\* the call: rule lookup (463-465), then the await inside _is_in_cooldown (508)
trigger_alert_call(t, rule_id, user_id, agent_id) ==
    /\ tpc[t] = "idle"
    /\ IF rule_usable(rule_id)
       THEN /\ tpc' = [tpc EXCEPT ![t] = "cooldown"]
            /\ targs' = [targs EXCEPT ![t] =
                           [rule_id |-> rule_id, user_id |-> user_id, agent_id |-> agent_id]]
       ELSE UNCHANGED <<tpc, targs>>

\* SELECT id FROM usage_alerts WHERE alert_type = $1 AND triggered_at > $2 ... (512-518);
\* a failed query is "not in cooldown" (520-522)
is_in_cooldown_buggy(key, cooldown_minutes, db_ok) ==
    \/ ~db_ok
    \/ \E row \in usage_alerts :
          row.alert_type = key /\ row.triggered_at > now - cooldown_minutes
is_in_cooldown(key, cooldown_minutes, db_ok) ==
    /\ db_ok
    /\ \E row \in usage_alerts :
          row.alert_type = key /\ row.triggered_at > now - cooldown_minutes

\* Alert(...) of lines 473-485; the id is fresh
new_alert(id, rule_id, user_id, agent_id) ==
    [id |-> id, rule_id |-> rule_id,
     alert_type |-> alert_rules[rule_id].alert_type,
     severity |-> alert_rules[rule_id].severity,
     user_id |-> user_id, agent_id |-> agent_id,
     triggered_at |-> now, resolved_at |-> NoTime,
     acknowledged_at |-> NoTime, acknowledged_by |-> None,
     channels_sent |-> <<>>, auto_resolved |-> FALSE]

\* lines 467-492: cooldown decision, then the alert is created and stored in memory
trigger_alert_cooldown(t) ==
    /\ tpc[t] = "cooldown"
    /\ \E db_ok \in DbOutcomes :
         LET a   == targs[t]
             key == alert_key(a.rule_id, a.user_id, a.agent_id)
             id  == Len(alerts) + 1
         IN  /\ db_errors' = DbCount(db_ok)
             /\ IF is_in_cooldown(key, alert_rules[a.rule_id].cooldown_minutes, db_ok)
                THEN /\ tpc' = [tpc EXCEPT ![t] = "idle"]
                     /\ targs' = [targs EXCEPT ![t] = NoArgs]
                     /\ UNCHANGED <<alerts, active_alerts, alert_history, talert>>
                ELSE /\ id <= MaxAlerts
                     /\ alerts' = Append(alerts, new_alert(id, a.rule_id, a.user_id, a.agent_id))
                     /\ active_alerts' = Append(active_alerts, id)
                     /\ alert_history' = Append(alert_history, id)
                     /\ talert' = [talert EXCEPT ![t] = id]
                     /\ tpc' = [tpc EXCEPT ![t] = "save"]
                     /\ UNCHANGED targs
    /\ UNCHANGED <<notification_queue, usage_alerts, now, ret, resolved_ok>>

\* the row written by _save_alert_to_db (529-538)
alert_row(a) ==
    [id |-> a.id, user_id |-> a.user_id, alert_type |-> a.alert_type,
     triggered_at |-> a.triggered_at, severity |-> a.severity]

\* _save_alert_to_db: a failed INSERT is logged and swallowed (540-541)
save_alert_to_db(a, db_ok) ==
    IF db_ok THEN usage_alerts \cup {alert_row(a)} ELSE usage_alerts

\* lines 492-500: the INSERT completes, the notification is enqueued, the call returns
trigger_alert_save(t) ==
    /\ tpc[t] = "save"
    /\ \E db_ok \in DbOutcomes :
         /\ db_errors' = DbCount(db_ok)
         /\ usage_alerts' = save_alert_to_db(alerts[talert[t]], db_ok)
    /\ notification_queue' = Append(notification_queue,
           [alert |-> talert[t], channels |-> alert_rules[targs[t].rule_id].channels])
    /\ tpc' = [tpc EXCEPT ![t] = "idle"]
    /\ targs' = [targs EXCEPT ![t] = NoArgs]
    /\ talert' = [talert EXCEPT ![t] = 0]
    /\ UNCHANGED <<alerts, active_alerts, alert_history, now, ret, resolved_ok>>

(***************************************************************************)
(* Alert management: get_active_alerts, acknowledge_alert, resolve_alert,  *)
(* and one cycle of _alert_cleanup.                                        *)
(***************************************************************************)
RetentionMinutes == 10080   \* timedelta(days=7)
DefaultLimit     == 50      \* get_active_alerts(limit=50)

\* sorted(ids, key=triggered_at, reverse=True): stable, equal keys keep their order
RECURSIVE InsertDesc(_, _)
InsertDesc(sorted, id) ==
    IF sorted = <<>> THEN <<id>>
    ELSE IF alerts[Head(sorted)].triggered_at >= alerts[id].triggered_at
         THEN <<Head(sorted)>> \o InsertDesc(Tail(sorted), id)
         ELSE <<id>> \o sorted

RECURSIVE SortDesc(_)
SortDesc(ids) ==
    IF ids = <<>> THEN <<>>
    ELSE InsertDesc(SortDesc(SubSeq(ids, 1, Len(ids) - 1)), ids[Len(ids)])

\* get_active_alerts (676-684): the ids of the alerts returned, in order
get_active_alerts(limit) ==
    LET all == SortDesc(active_alerts)
    IN  SubSeq(all, 1, IF Len(all) < limit THEN Len(all) ELSE limit)

Actors == {"ops"}

\* acknowledge_alert (686-708).  The UPDATE (696-700) writes columns of usage_alerts
\* that nothing reads back, so only its outcome is kept: it decides the return value.
acknowledge_alert_buggy(alert_id, acknowledged_by) ==
    /\ \E db_ok \in DbOutcomes :
          /\ alerts' = IF alert_id \in DOMAIN alerts
                        THEN [alerts EXCEPT ![alert_id].acknowledged_at = now,
                                            ![alert_id].acknowledged_by = acknowledged_by]
                        ELSE alerts
          /\ db_errors' = DbCount(db_ok)
          /\ ret' = [op |-> "acknowledge", id |-> alert_id, ok |-> db_ok]
    /\ UNCHANGED <<active_alerts, alert_history, notification_queue, usage_alerts, now,
                   tpc, targs, talert, resolved_ok>>
acknowledge_alert(alert_id, acknowledged_by) ==
    /\ IF alert_id \in Range(active_alerts)
       THEN \E db_ok \in DbOutcomes :
              /\ alerts' = [alerts EXCEPT ![alert_id].acknowledged_at = now,
                                          ![alert_id].acknowledged_by = acknowledged_by]
              /\ db_errors' = DbCount(db_ok)
              /\ ret' = [op |-> "acknowledge", id |-> alert_id, ok |-> db_ok]
       ELSE /\ ret' = [op |-> "acknowledge", id |-> alert_id, ok |-> FALSE]
            /\ UNCHANGED <<alerts, db_errors>>
    /\ UNCHANGED <<active_alerts, alert_history, notification_queue, usage_alerts, now,
                   tpc, targs, talert, resolved_ok>>

\* resolve_alert (710-731)
resolve_alert(alert_id, resolved_by) ==
    /\ IF alert_id \in Range(active_alerts)
       THEN \E db_ok \in DbOutcomes :
              /\ alerts' = [alerts EXCEPT ![alert_id].resolved_at = now]
              /\ db_errors' = DbCount(db_ok)
              /\ ret' = [op |-> "resolve", id |-> alert_id, ok |-> db_ok]
              /\ resolved_ok' = IF db_ok THEN resolved_ok \cup {alert_id} ELSE resolved_ok
       ELSE /\ ret' = [op |-> "resolve", id |-> alert_id, ok |-> FALSE]
            /\ UNCHANGED <<alerts, db_errors, resolved_ok>>
    /\ UNCHANGED <<active_alerts, alert_history, notification_queue, usage_alerts, now,
                   tpc, targs, talert>>

\* one cycle of _alert_cleanup (650-668)
alert_cleanup_buggy ==
    LET cutoff_time == now - RetentionMinutes
        recent(id)  == alerts[id].triggered_at > cutoff_time
        open(id)    == alerts[id].resolved_at = NoTime /\ recent(id)
    IN  /\ alert_history' = SelectSeq(alert_history, recent)
        /\ active_alerts' = SelectSeq(active_alerts, open)
        /\ UNCHANGED <<alerts, notification_queue, usage_alerts, now, db_errors,
                       tpc, targs, talert, ret, resolved_ok>>
alert_cleanup ==
    LET cutoff_time == now - RetentionMinutes
        recent(id)  == alerts[id].triggered_at > cutoff_time
        open(id)    == alerts[id].resolved_at = NoTime
    IN  /\ alert_history' = SelectSeq(alert_history, recent)
        /\ active_alerts' = SelectSeq(active_alerts, open)
        /\ UNCHANGED <<alerts, notification_queue, usage_alerts, now, db_errors,
                       tpc, targs, talert, ret, resolved_ok>>

\* the clock advances by step minutes, at most MaxTicks times
Tick(step) ==
    /\ now \div step < MaxTicks
    /\ now' = now + step
    /\ UNCHANGED <<alerts, active_alerts, alert_history, notification_queue, usage_alerts,
                   db_errors, tpc, targs, talert, ret, resolved_ok>>

(***************************************************************************)
(* ConnectionManager (agent_usage/__init__.py 69-89) and websocket_endpoint*)
(* (310-323).  A connection is "new" (not yet accepted), "open", "closed"  *)
(* (the client is gone, the endpoint has not yet seen WebSocketDisconnect) *)
(* or "gone" (the endpoint has returned).  send_text on a connection that  *)
(* is not open raises.                                                     *)
(* broadcast is cut at its suspension point, the await of send_text:       *)
(*   bpc = "send": suspended in send_text(b_cur); b_idx is the position of *)
(*   the list iterator (the number of elements it has handed out).         *)
(***************************************************************************)
Conns == 1..MaxConns

\* next() of the list iterator of "for connection in self.active_connections"
iter_next(list, idx) ==
    IF idx < Len(list) THEN [pc |-> "send", cur |-> list[idx + 1], idx |-> idx + 1]
    ELSE [pc |-> "done", cur |-> 0, idx |-> idx]

\* connect (73-75)
connect(c) ==
    /\ conn_state[c] = "new"
    /\ conn_state' = [conn_state EXCEPT ![c] = "open"]
    /\ active_connections' = Append(active_connections, c)
    /\ UNCHANGED <<bpc, b_idx, b_cur, sends, raised, b_start>>

\* the client goes away
client_close(c) ==
    /\ conn_state[c] = "open"
    /\ conn_state' = [conn_state EXCEPT ![c] = "closed"]
    /\ UNCHANGED <<active_connections, bpc, b_idx, b_cur, sends, raised, b_start>>

\* websocket_endpoint: receive_text raises WebSocketDisconnect, then
\* manager.disconnect (77-78): list.remove raises ValueError when c is not in the list
endpoint_disconnect(c) ==
    /\ conn_state[c] = "closed"
    /\ conn_state' = [conn_state EXCEPT ![c] = "gone"]
    /\ IF c \in Range(active_connections)
       THEN active_connections' = RemoveFirst(active_connections, c) /\ UNCHANGED raised
       ELSE raised' = raised \cup {"disconnect"} /\ UNCHANGED active_connections
    /\ UNCHANGED <<bpc, b_idx, b_cur, sends, b_start>>

\* broadcast is called (83-86): the iterator is created and the first send begins
broadcast_start ==
    /\ bpc = "idle"
    /\ LET n == iter_next(active_connections, 0)
       IN  bpc' = n.pc /\ b_cur' = n.cur /\ b_idx' = n.idx
    /\ b_start' = active_connections
    /\ sends' = [c \in Conns |-> 0]
    /\ UNCHANGED <<active_connections, conn_state, raised>>

\* the registry after the send to cur has ended (86-89), and whether remove raised
after_send(list, cur, ok) ==
    IF ok THEN [raises |-> FALSE, list |-> list]
    ELSE IF cur \in Range(list) THEN [raises |-> FALSE, list |-> RemoveFirst(list, cur)]
    ELSE [raises |-> TRUE, list |-> list]

\* the pending send_text ends (86-89), then the loop goes on to the next element
broadcast_send ==
    /\ bpc = "send"
    /\ sends' = [sends EXCEPT ![b_cur] = @ + 1]
    /\ LET r == after_send(active_connections, b_cur, conn_state[b_cur] = "open")
       IN  IF r.raises
           THEN /\ raised' = raised \cup {"broadcast"}
                /\ bpc' = "raised"
                /\ UNCHANGED <<active_connections, b_idx, b_cur>>
           ELSE /\ active_connections' = r.list
                /\ LET n == iter_next(r.list, b_idx)
                   IN  bpc' = n.pc /\ b_cur' = n.cur /\ b_idx' = n.idx
                /\ UNCHANGED raised
    /\ UNCHANGED <<conn_state, b_start>>

(***************************************************************************)
(* One cycle of _check_usage_limits (233-327), cut at its awaits: the      *)
(* usage query, then per row the call of _trigger_alert.  Percentages are  *)
(* compared as integers: tokens / limit >= p / 100 iff 100 * tokens >=     *)
(* p * limit.                                                              *)
(***************************************************************************)
thresholds == [usage_warning |-> 80, usage_critical |-> 95,
               churn_risk |-> 70, response_time_degradation |-> 5000]

\* tier_limits.get(tier, 50000) (259-271)
tier_limit(tier) ==
    CASE tier = "essential" -> 50000
      [] tier = "pro"       -> 150000
      [] tier = "elite"     -> 500000
      [] tier = "prime"     -> 1000000
      [] tier = "longevity" -> 1000000
      [] OTHER              -> 50000

\* usage_percentage >= p / 100
usage_at_least(row, p) == 100 * row.monthly_tokens >= p * tier_limit(row.subscription_tier)

\* the if / elif chain of lines 275-311: the rule the row triggers, or None
usage_rule(row) ==
    IF usage_at_least(row, thresholds.usage_warning)
         /\ ~usage_at_least(row, thresholds.usage_critical)
    THEN "usage_approaching"
    ELSE IF usage_at_least(row, thresholds.usage_critical)
    THEN "usage_exceeded"
    ELSE IF /\ usage_at_least(row, 85)
            /\ row.subscription_tier \in {"essential", "pro"}
            /\ row.active_days >= 15
    THEN "upgrade_opportunity"
    ELSE None

\* datetime.replace(month=month+1, day=1) of line 288 raises ValueError for month 13
days_remaining_raises(m) == m + 1 > 12

\* the rows the query can return: GROUP BY user_id, subscription_tier
UsageUsers == {"u1", "u2"}
UsageTiers == {"essential", "pro", "trial"}
UsagePercents == {50, 80, 90, 95, 120}
UsageRows ==
    {[user_id |-> u, subscription_tier |-> tr,
      monthly_tokens |-> (p * tier_limit(tr)) \div 100, active_days |-> d] :
        u \in UsageUsers, tr \in UsageTiers, p \in UsagePercents, d \in {10, 20}}
UsageResults ==
    {r \in UNION {[1..n -> UsageRows] : n \in 0..MaxRows} :
        \A i, j \in 1..Len(r) :
            i # j => \/ r[i].user_id # r[j].user_id
                     \/ r[i].subscription_tier # r[j].subscription_tier}

\* lines 236-256: the usage query; a failure ends the cycle in the except of 326
usage_fetch ==
    /\ upc = "idle"
    /\ \E db_ok \in DbOutcomes :
         /\ db_errors' = DbCount(db_ok)
         /\ IF db_ok
            THEN /\ \E rows \in UsageResults : u_rows' = rows
                 /\ upc' = "loop"
                 /\ u_idx' = 1
            ELSE /\ upc' = "failed"
                 /\ UNCHANGED <<u_rows, u_idx>>
    /\ u_triggered' = <<>>
    /\ UNCHANGED <<alerts, active_alerts, alert_history, notification_queue, usage_alerts,
                   now, tpc, targs, talert, ret, resolved_ok, month>>

\* lines 267-324 for one row: classify, then call _trigger_alert; building the
\* metadata of usage_approaching raises in December, which ends the cycle (326)
usage_row ==
    /\ upc = "loop"
    /\ tpc["usage"] = "idle"
    /\ u_idx <= Len(u_rows)
    /\ LET row  == u_rows[u_idx]
           rule == usage_rule(row)
       IN  IF rule = None
           THEN /\ u_idx' = u_idx + 1
                /\ UNCHANGED <<upc, u_triggered, tpc, targs>>
           ELSE IF rule = "usage_approaching" /\ days_remaining_raises(month)
           THEN /\ upc' = "failed"
                /\ UNCHANGED <<u_idx, u_triggered, tpc, targs>>
           ELSE /\ trigger_alert_call("usage", rule, row.user_id, None)
                /\ u_triggered' = Append(u_triggered,
                       [rule_id |-> rule, user_id |-> row.user_id, row |-> u_idx])
                /\ u_idx' = u_idx + 1
                /\ UNCHANGED upc
    /\ UNCHANGED <<alerts, active_alerts, alert_history, notification_queue, usage_alerts,
                   now, db_errors, talert, ret, resolved_ok, u_rows, month>>

\* the for loop of line 267 is exhausted: the cycle ends normally
usage_done ==
    /\ upc = "loop"
    /\ tpc["usage"] = "idle"
    /\ u_idx > Len(u_rows)
    /\ upc' = "done"
    /\ UNCHANGED <<alertVars, u_rows, u_idx, month, u_triggered>>

(***************************************************************************)
(* One cycle of _check_agent_performance (424-450).  The rows are those of *)
(* the grouped query of analyze_agent_performance (analytics_engine.py     *)
(* 351-385), one per (hour, tier) group.                                   *)
(***************************************************************************)
agents == <<"NEXUS", "BLAZE", "SAGE", "ARIA", "CIPHER", "ECHO">>

RECURSIVE SumOver(_, _)
SumOver(rows, field) ==
    IF rows = <<>> THEN 0 ELSE rows[1][field] + SumOver(Tail(rows), field)

\* total_interactions = sum(r['total_interactions'] for r in results)
perf_total_interactions(rows) == SumOver(rows, "total_interactions")

\* response_times = [r['avg_response_time'] for r in results if r['avg_response_time']]
perf_response_times(rows) ==
    LET truthy(r) == r.avg_response_time # 0 IN SelectSeq(rows, truthy)

\* avg_response_time (statistics.mean(response_times) or 0) > threshold
perf_avg_exceeds(rows, threshold) ==
    LET rt == perf_response_times(rows)
    IN  rt # <<>> /\ SumOver(rt, "avg_response_time") > threshold * Len(rt)

\* the condition of lines 433-434
performance_degraded(rows) ==
    /\ perf_avg_exceeds(rows, thresholds.response_time_degradation)
    /\ perf_total_interactions(rows) > 10

PerfGroups == {[total_interactions |-> n, avg_response_time |-> a] :
                  n \in {5, 6}, a \in {0, 4000, 7000}}
PerfResults == UNION {[1..n -> PerfGroups] : n \in 0..2}

\* the cycle begins
perf_start ==
    /\ ppc = "idle"
    /\ ppc' = "loop"
    /\ p_idx' = 1
    /\ p_degraded' = {}
    /\ UNCHANGED alertVars

\* lines 429-447 for one agent; analyze_agent_performance re-raises a query
\* failure, which ends the cycle in the except of 449
perf_agent ==
    /\ ppc = "loop"
    /\ tpc["performance"] = "idle"
    /\ p_idx <= Len(agents)
    /\ \E db_ok \in DbOutcomes :
         /\ db_errors' = DbCount(db_ok)
         /\ IF ~db_ok
            THEN /\ ppc' = "failed"
                 /\ UNCHANGED <<p_idx, p_degraded, tpc, targs>>
            ELSE \E rows \in PerfResults :
                   /\ p_idx' = p_idx + 1
                   /\ UNCHANGED ppc
                   /\ IF performance_degraded(rows)
                      THEN /\ trigger_alert_call("performance", "performance_degradation",
                                                 None, agents[p_idx])
                           /\ p_degraded' = p_degraded \cup {agents[p_idx]}
                      ELSE UNCHANGED <<p_degraded, tpc, targs>>
    /\ UNCHANGED <<alerts, active_alerts, alert_history, notification_queue, usage_alerts,
                   now, talert, ret, resolved_ok>>

\* the roster is exhausted: the cycle ends normally
perf_done ==
    /\ ppc = "loop"
    /\ tpc["performance"] = "idle"
    /\ p_idx > Len(agents)
    /\ ppc' = "done"
    /\ UNCHANGED <<alertVars, p_idx, p_degraded>>

(***************************************************************************)
(* _notification_processor takes an item from the queue (548-551) and      *)
(* _send_notifications (564-592) tries its channels in order; every send   *)
(* is an await.  A sender returns True ("ok"), returns False ("false") or  *)
(* raises ("raise"): the senders of the source are placeholders returning  *)
(* True, except _send_dashboard_notification, which returns False when the *)
(* broadcast raises; the dispatcher handles all three outcomes.            *)
(***************************************************************************)
NoItem == [alert |-> 0, channels |-> <<>>]
SendOutcomes == {"ok", "false", "raise"}

\* lines 570-587: sent_channels after the send on one channel has ended
sent_after_buggy(sent, channel, outcome) == Append(sent, channel)
sent_after(sent, channel, outcome) ==
    IF outcome = "ok" THEN Append(sent, channel) ELSE sent

\* alert.channels_sent = sent_channels (590), once the for loop is exhausted
channels_sent_after(alert, channels, idx, sent) ==
    IF idx > Len(channels) THEN [alert EXCEPT !.channels_sent = sent] ELSE alert

\* the queue after notification_queue.get() has returned its head
dequeue_buggy(q) == q
dequeue(q) == Tail(q)

\* the history once _send_notifications has ended (592): the alert and the
\* channels it tried
dispatched_after(alert, channels, idx) ==
    IF idx > Len(channels)
    THEN Append(dispatched, [alert |-> alert, channels |-> SubSeq(channels, 1, idx - 1)])
    ELSE dispatched

\* notification = await self.notification_queue.get(), then the call of
\* _send_notifications up to its first await
notification_get ==
    /\ npc = "idle"
    /\ notification_queue # <<>>
    /\ LET item == Head(notification_queue)
       IN  /\ n_item' = item
           /\ notification_queue' = dequeue(notification_queue)
           /\ dispatched' = dispatched_after(item.alert, item.channels, 1)
           /\ sent_channels' = <<>>
           /\ attempts' = <<>>
           /\ n_idx' = 1
           /\ npc' = IF item.channels = <<>> THEN "idle" ELSE "send"
           /\ alerts' = [alerts EXCEPT ![item.alert] =
                            channels_sent_after(@, item.channels, 1, <<>>)]
    /\ UNCHANGED <<active_alerts, alert_history, usage_alerts, now, db_errors,
                   tpc, targs, talert, ret, resolved_ok>>

\* the pending send ends with some outcome; the loop goes on to the next channel
\* or, when there is none, stores sent_channels in the alert
notification_send ==
    /\ npc = "send"
    /\ \E outcome \in SendOutcomes :
         LET channel == n_item.channels[n_idx]
             sent    == sent_after(sent_channels, channel, outcome)
         IN  /\ attempts' = Append(attempts, [channel |-> channel, outcome |-> outcome])
             /\ sent_channels' = sent
             /\ n_idx' = n_idx + 1
             /\ npc' = IF n_idx + 1 > Len(n_item.channels) THEN "idle" ELSE "send"
             /\ dispatched' = dispatched_after(n_item.alert, n_item.channels, n_idx + 1)
             /\ alerts' = [alerts EXCEPT ![n_item.alert] =
                              channels_sent_after(@, n_item.channels, n_idx + 1, sent)]
    /\ UNCHANGED <<active_alerts, alert_history, notification_queue, usage_alerts, now,
                   db_errors, tpc, targs, talert, ret, resolved_ok, n_item>>

(***************************************************************************)
(* start_monitoring (194-216), stop_monitoring (218-221) and the six loops *)
(* it creates (223-231, 329-337, 357-365, 414-422, 543-562, 646-674).      *)
(* Every loop is  while self.is_running: try: <body> except Exception:     *)
(* <log, shorter sleep>.  The tasks of one loop run the same code, so      *)
(* lpc[l] counts the tasks of loop l at each suspension point:             *)
(*   wait    - created and not yet run, or in the sleep after a cycle      *)
(*   body    - inside the body of a cycle                                  *)
(*   backoff - in the sleep of the except handler                          *)
(* The handler of start_monitoring (214-216) runs only if a task raises    *)
(* an Exception, which no loop lets out.                                   *)
(***************************************************************************)
Loops == {"usage", "anomaly", "churn", "performance", "notifier", "cleanup"}
NoTasks == [wait |-> 0, body |-> 0, backoff |-> 0]
CycleOutcomes == {"ok", "failed"}

live_tasks(c) == c.wait + c.body + c.backoff

\* lines 196-210: is_running is set and one task per loop is created
start_monitoring ==
    /\ ~is_running
    /\ is_running' = TRUE
    /\ lpc' = [l \in Loops |-> [lpc[l] EXCEPT !.wait = @ + 1]]
    /\ starts' = starts + 1

\* lines 218-221
stop_monitoring ==
    /\ is_running' = FALSE
    /\ UNCHANGED <<lpc, starts>>

\* "while self.is_running:" evaluated by a task that was at suspension point
\* from: it enters the body of a cycle, or the loop ends and the task with it
while_test_buggy(c, from, running) ==
    [[c EXCEPT ![from] = @ - 1] EXCEPT !.body = @ + 1]
while_test(c, from, running) ==
    LET left == [c EXCEPT ![from] = @ - 1]
    IN  IF running THEN [left EXCEPT !.body = @ + 1] ELSE left

\* a task of loop l is run for the first time, or its sleep is over
loop_wake(l, from) ==
    /\ lpc[l][from] > 0
    /\ lpc' = [lpc EXCEPT ![l] = while_test(@, from, is_running)]
    /\ UNCHANGED <<is_running, starts>>

\* the body of a cycle has ended: an exception takes the task to the except
\* handler and its sleep; otherwise the task sleeps until the next cycle.  The
\* notification processor has no sleep after a cycle (553-559): it is back at
\* the while test at once.
after_cycle_buggy(c, l, outcome, running) == [c EXCEPT !.body = @ - 1]
after_cycle(c, l, outcome, running) ==
    IF outcome = "failed"
    THEN [c EXCEPT !.body = @ - 1, !.backoff = @ + 1]
    ELSE IF l = "notifier"
         THEN while_test(c, "body", running)
         ELSE [c EXCEPT !.body = @ - 1, !.wait = @ + 1]

loop_cycle(l, outcome) ==
    /\ lpc[l].body > 0
    /\ lpc' = [lpc EXCEPT ![l] = after_cycle(@, l, outcome, is_running)]
    /\ UNCHANGED <<is_running, starts>>

(***************************************************************************)
(* receive_usage_event (agent_usage/__init__.py 122-194): the validation   *)
(* against TIER_LIMITS (94-120), the INSERT, the two background tasks.     *)
(* The whole body is inside "try: ... except Exception as e: raise         *)
(* HTTPException(status_code=500)", and HTTPException is an Exception.     *)
(***************************************************************************)
TIER_LIMITS ==
    [essential |-> [total_tokens |-> 50000,   agents |-> <<"NEXUS", "BLAZE">>],
     pro       |-> [total_tokens |-> 150000,  agents |-> <<"NEXUS", "BLAZE", "SAGE", "ARIA">>],
     elite     |-> [total_tokens |-> 500000,
                    agents |-> <<"NEXUS", "BLAZE", "SAGE", "ARIA", "CIPHER", "ECHO">>],
     prime     |-> [total_tokens |-> 1000000, agents |-> <<"*">>],
     longevity |-> [total_tokens |-> 1000000, agents |-> <<"*">>]]

\* TIER_LIMITS.get(event.subscription_tier, {}).get("agents", [])  (135-137)
allowed_agents(tier) ==
    IF tier \in DOMAIN TIER_LIMITS THEN TIER_LIMITS[tier].agents ELSE <<>>

\* the negation of the condition of line 139
agent_allowed(tier, agent_id) ==
    allowed_agents(tier) = <<"*">> \/ agent_id \in Range(allowed_agents(tier))

\* the status the client receives when the body raises HTTPException(status):
\* the except clause of lines 190-194 catches it and raises a new one
status_raised(status) == 500

\* subscription_tier and agent_id are free strings of the request body
EventTiers == DOMAIN TIER_LIMITS \cup {"trial"}
EventAgents == {"NEXUS", "BLAZE", "SAGE", "ECHO"}

receive_usage_event(tier, agent_id) ==
    IF ~agent_allowed(tier, agent_id)
    THEN /\ response' = [status |-> status_raised(400), detail |-> "not allowed",
                         subscription_tier |-> tier, agent_id |-> agent_id]
         /\ background_tasks' = <<>>
         /\ UNCHANGED <<agent_usage_events, db_errors>>
    ELSE \E db_ok \in DbOutcomes :
           /\ db_errors' = DbCount(db_ok)
           /\ IF db_ok
              THEN /\ Cardinality(agent_usage_events) < MaxEvents
                   /\ agent_usage_events' = agent_usage_events \cup
                         {[id |-> Cardinality(agent_usage_events) + 1,
                           subscription_tier |-> tier, agent_id |-> agent_id]}
                   /\ background_tasks' = <<"process_usage_analytics", "broadcast_usage_update">>
                   /\ response' = [status |-> 200, detail |-> "success",
                                   subscription_tier |-> tier, agent_id |-> agent_id]
              ELSE /\ response' = [status |-> status_raised(500), detail |-> "insert failed",
                                   subscription_tier |-> tier, agent_id |-> agent_id]
                   /\ background_tasks' = <<>>
                   /\ UNCHANGED agent_usage_events

\* tier_limits.get(tier, 50000) of generate_user_insights (analytics_engine.py 253-262)
insights_tier_limit(tier) ==
    CASE tier = "essential" -> 50000
      [] tier = "pro"       -> 150000
      [] tier = "elite"     -> 500000
      [] tier = "prime"     -> 1000000
      [] tier = "longevity" -> 1000000
      [] OTHER              -> 50000

(***************************************************************************)
(* detect_usage_anomalies (analytics_engine.py 422-517) for the rows of    *)
(* one agent, in date order (ORDER BY usage_date, agent_id).  The z-score  *)
(* |x - mean| / stdev, with statistics.stdev the sample deviation, is      *)
(* compared exactly: for n values of sum S and sum of squares Q,           *)
(*   z > k  iff  (n x - S)^2 (n - 1) > k^2 n (n Q - S^2),                  *)
(* and stdev > 0 iff n Q - S^2 > 0.                                        *)
(***************************************************************************)
RECURSIVE SumSq(_, _)
SumSq(rows, field) ==
    IF rows = <<>> THEN 0
    ELSE rows[1][field] * rows[1][field] + SumSq(Tail(rows), field)

\* n^2 (n - 1) times the sample variance of the column
scaled_variance(rows, field) ==
    Len(rows) * SumSq(rows, field) - SumOver(rows, field) * SumOver(rows, field)

\* std > 0 and abs(x - mean) / std > k  (487-489, 500-502)
z_score_exceeds(rows, field, x, k) ==
    LET n   == Len(rows)
        dev == n * x - SumOver(rows, field)
    IN  /\ scaled_variance(rows, field) > 0
        /\ dev * dev * (n - 1) > k * k * n * scaled_variance(rows, field)

\* x > mean
above_mean(rows, field, x) == Len(rows) * x > SumOver(rows, field)

\* the anomaly appended for one metric of day i, if any (489-498, 502-511)
metric_anomaly(agent_id, rows, field, i, spike, drop) ==
    IF z_score_exceeds(rows, field, rows[i][field], 2)
    THEN << [type |-> IF above_mean(rows, field, rows[i][field]) THEN spike ELSE drop,
             agent_id |-> agent_id, day |-> i, value |-> rows[i][field],
             severity |-> IF z_score_exceeds(rows, field, rows[i][field], 3)
                          THEN "high" ELSE "medium"] >>
    ELSE <<>>

\* the loop of line 486 from day i on
RECURSIVE day_anomalies(_, _, _)
day_anomalies(agent_id, rows, i) ==
    IF i > Len(rows) THEN <<>>
    ELSE metric_anomaly(agent_id, rows, "interactions", i, "interaction_spike", "interaction_drop")
         \o metric_anomaly(agent_id, rows, "tokens", i, "token_spike", "token_drop")
         \o day_anomalies(agent_id, rows, i + 1)

\* lines 470-511 for one agent: fewer than 3 days of data are skipped
detect_usage_anomalies(agent_id, rows) ==
    IF Len(rows) < 3 THEN <<>> ELSE day_anomalies(agent_id, rows, 1)

\* the daily rows of one agent: daily_interactions and daily_tokens
DailyRows == {[interactions |-> n, tokens |-> k] : n \in {10, 100}, k \in {50, 500}}
DailyData == UNION {[1..n -> DailyRows] : n \in 2..MaxDays}

\* the detector runs on the rows of agent NEXUS
anomaly_detect ==
    /\ apc = "idle"
    /\ anomalies' = detect_usage_anomalies("NEXUS", d_data)
    /\ apc' = "detected"
    /\ UNCHANGED <<d_data, a_idx>>

(***************************************************************************)
(* One cycle of _check_usage_anomalies (intelligent_alerts.py 339-355),    *)
(* cut at its awaits: the call of the detector, then per anomaly the call  *)
(* of _trigger_alert.  The detector gives 'high' to a z-score above 3,     *)
(* which takes 11 days or more of rows in the window (the query has no     *)
(* upper bound on the timestamp, which the client supplies), and never     *)
(* gives 'critical'.  A failure inside the detector makes it return [].    *)
(***************************************************************************)
\* anomaly['severity'] in ['high', 'critical']  (345)
anomaly_alertable_buggy(severity) == severity = "critical"
anomaly_alertable(severity) == severity \in {"high", "critical"}

AnomalyKinds ==
    {[type |-> "interaction_spike", agent_id |-> a, day |-> 1, value |-> 100, severity |-> v] :
        a \in {"NEXUS", "BLAZE"}, v \in {"medium", "high"}}
AnomalyResults == UNION {[1..n -> AnomalyKinds] : n \in 0..MaxAnomalies}

\* anomalies = await analytics_engine.detect_usage_anomalies(7)  (342)
anomaly_fetch ==
    /\ apc = "idle"
    /\ \E db_ok \in DbOutcomes :
         /\ db_errors' = DbCount(db_ok)
         /\ IF db_ok
            THEN \E result \in AnomalyResults : anomalies' = result
            ELSE anomalies' = <<>>
    /\ apc' = "loop"
    /\ a_idx' = 1
    /\ UNCHANGED <<alerts, active_alerts, alert_history, notification_queue, usage_alerts,
                   now, tpc, targs, talert, ret, resolved_ok, d_data>>

\* lines 344-352 for one anomaly
anomaly_row ==
    /\ apc = "loop"
    /\ tpc["anomaly"] = "idle"
    /\ a_idx <= Len(anomalies)
    /\ IF anomaly_alertable(anomalies[a_idx].severity)
       THEN trigger_alert_call("anomaly", "anomaly", None, anomalies[a_idx].agent_id)
       ELSE UNCHANGED <<tpc, targs>>
    /\ a_idx' = a_idx + 1
    /\ UNCHANGED <<alerts, active_alerts, alert_history, notification_queue, usage_alerts,
                   now, db_errors, talert, ret, resolved_ok, d_data, anomalies, apc>>

\* the for loop of line 344 is exhausted: the cycle ends
anomaly_done ==
    /\ apc = "loop"
    /\ tpc["anomaly"] = "idle"
    /\ a_idx > Len(anomalies)
    /\ apc' = "done"
    /\ UNCHANGED <<alertVars, d_data, anomalies, a_idx>>

(***************************************************************************)
(* Peak hours (analytics_engine.py 173-179 in calculate_usage_metrics, the *)
(* same code at 390-400 in analyze_agent_performance).  hour_usage is a    *)
(* dict: its keys are in the order in which the rows first mention them;   *)
(* sorted(..., reverse=True) is stable, so hours of equal count keep that  *)
(* order.  The queries (107-120, 353-364) have no ORDER BY.                *)
(***************************************************************************)
\* hour_usage.keys(): the hours in order of first appearance
RECURSIVE hour_keys(_)
hour_keys(rows) ==
    IF rows = <<>> THEN <<>>
    ELSE LET before == hour_keys(SubSeq(rows, 1, Len(rows) - 1))
             h      == rows[Len(rows)].hour
         IN  IF h \in Range(before) THEN before ELSE Append(before, h)

\* hour_usage[h]
hour_usage(rows, h) ==
    LET of_hour(r) == r.hour = h IN SumOver(SelectSeq(rows, of_hour), "total_interactions")

\* one step of the stable descending sort: h goes behind every hour whose count
\* is not lower
RECURSIVE insert_hour(_, _, _)
insert_hour(rows, sorted, h) ==
    IF sorted = <<>> THEN <<h>>
    ELSE IF hour_usage(rows, Head(sorted)) >= hour_usage(rows, h)
         THEN <<Head(sorted)>> \o insert_hour(rows, Tail(sorted), h)
         ELSE <<h>> \o sorted

\* sorted(hour_usage.keys(), key=lambda h: hour_usage[h], reverse=True)
RECURSIVE sort_hours(_, _)
sort_hours(rows, keys) ==
    IF keys = <<>> THEN <<>>
    ELSE insert_hour(rows, sort_hours(rows, SubSeq(keys, 1, Len(keys) - 1)), keys[Len(keys)])

\* peak_hours = sorted(...)[:3]
peak_hours_of(rows) ==
    LET all == sort_hours(rows, hour_keys(rows))
    IN  SubSeq(all, 1, IF Len(all) < 3 THEN Len(all) ELSE 3)

\* the grouped rows: EXTRACT(HOUR FROM timestamp) and COUNT(*)
HourRows == {[hour |-> h, total_interactions |-> n] : h \in {3, 5, 9, 23}, n \in {10, 20}}
HourResults == UNION {[1..n -> HourRows] : n \in 0..MaxHourRows}

peak_hours_compute ==
    /\ hpc = "idle"
    /\ peak_hours' = peak_hours_of(h_rows)
    /\ hpc' = "done"
    /\ UNCHANGED <<h_rows, m_events, agent_breakdown, tier_breakdown, avg_response_time>>

(***************************************************************************)
(* calculate_usage_metrics (analytics_engine.py 90-179) on the events of   *)
(* the window.  The main query groups the events by (agent, tier, hour);   *)
(* the breakdowns are built from the grouped rows.  The 'users' entry of a *)
(* breakdown starts as set() (lines 143-148, 160-164), nothing is added to *)
(* it, and lines 156-157 and 171-172 replace it by its len().              *)
(***************************************************************************)
group_key(e) == <<e.agent_id, e.subscription_tier, e.hour>>

\* the keys of GROUP BY agent_id, subscription_tier, EXTRACT(HOUR FROM timestamp)
RECURSIVE group_keys(_)
group_keys(events) ==
    IF events = <<>> THEN <<>>
    ELSE LET before == group_keys(SubSeq(events, 1, Len(events) - 1))
             k      == group_key(events[Len(events)])
         IN  IF k \in Range(before) THEN before ELSE Append(before, k)

\* one grouped row: COUNT(*) of the group, and AVG(response_time_ms) as the
\* exact quotient sum_response_time / total_interactions
group_row(events, k) ==
    LET in_group(e) == group_key(e) = k
    IN  [agent_id |-> k[1], subscription_tier |-> k[2], hour |-> k[3],
         total_interactions |-> Len(SelectSeq(events, in_group)),
         sum_response_time  |-> SumOver(SelectSeq(events, in_group), "response_time_ms")]

\* a fraction num / den; Zero is the 0 of "else 0"
Zero == [num |-> 0, den |-> 1]

RECURSIVE ProdOver(_, _)
ProdOver(rows, field) ==
    IF rows = <<>> THEN 1 ELSE rows[1][field] * ProdOver(Tail(rows), field)

\* the sum of the rows' averages, over the denominator ProdOver(rows, count)
RECURSIVE sum_of_averages(_)
sum_of_averages(rows) ==
    IF rows = <<>> THEN 0
    ELSE rows[1].sum_response_time * ProdOver(Tail(rows), "total_interactions")
           + rows[1].total_interactions * sum_of_averages(Tail(rows))

\* response_times = [r['avg_response_time'] for r in results if r['avg_response_time']]
\* avg_response_time = statistics.mean(response_times) if response_times else 0
mean_response_time(rows) ==
    LET truthy(r) == r.sum_response_time # 0
        rt        == SelectSeq(rows, truthy)
    IN  IF rt = <<>> THEN Zero
        ELSE [num |-> sum_of_averages(rt),
              den |-> Len(rt) * ProdOver(rt, "total_interactions")]

\* results = await db.fetch(main_query, *params)
metrics_results(events) ==
    LET keys == group_keys(events)
    IN  [i \in 1..Len(keys) |-> group_row(events, keys[i])]

\* lines 143-157: interactions summed over the rows of the agent, users = len(set())
agent_breakdown_of(rows) ==
    [a \in {rows[i].agent_id : i \in 1..Len(rows)} |->
        LET of_agent(r) == r.agent_id = a
            users       == {}
        IN  [interactions |-> SumOver(SelectSeq(rows, of_agent), "total_interactions"),
             users |-> Cardinality(users)]]

\* lines 160-172: the same by subscription tier
tier_breakdown_of(rows) ==
    [t \in {rows[i].subscription_tier : i \in 1..Len(rows)} |->
        LET of_tier(r) == r.subscription_tier = t
            users      == {}
        IN  [interactions |-> SumOver(SelectSeq(rows, of_tier), "total_interactions"),
             users |-> Cardinality(users)]]

MetricEvents ==
    {[user_id |-> u, agent_id |-> a, subscription_tier |-> t, hour |-> h,
      response_time_ms |-> 1000] :
        u \in {"u1", "u2"}, a \in {"NEXUS", "BLAZE"}, t \in {"essential", "pro"}, h \in {9, 14}}
MetricWindows == UNION {[1..n -> MetricEvents] : n \in 0..MaxMetricEvents}

\* lines 121-179 of calculate_usage_metrics
calculate_usage_metrics ==
    /\ hpc = "idle"
    /\ h_rows' = metrics_results(m_events)
    /\ agent_breakdown' = agent_breakdown_of(h_rows')
    /\ tier_breakdown' = tier_breakdown_of(h_rows')
    /\ peak_hours' = peak_hours_of(h_rows')
    /\ avg_response_time' = mean_response_time(h_rows')
    /\ hpc' = "done"
    /\ UNCHANGED m_events

\* the events of one agent in the window of analyze_agent_performance
AgentEvents ==
    {[user_id |-> "u1", agent_id |-> "NEXUS", subscription_tier |-> t, hour |-> h,
      response_time_ms |-> ms] :
        t \in {"essential", "pro"}, h \in {9, 14}, ms \in {1000, 9000}}
AgentWindows == UNION {[1..n -> AgentEvents] : n \in 0..MaxMetricEvents}

\* analyze_agent_performance (analytics_engine.py 346-400): the query groups
\* the agent's events by (hour, tier); with no row the zero metrics of 367-377
\* are returned
analyze_agent_performance ==
    /\ hpc = "idle"
    /\ h_rows' = metrics_results(m_events)
    /\ avg_response_time' = IF h_rows' = <<>> THEN Zero ELSE mean_response_time(h_rows')
    /\ peak_hours' = IF h_rows' = <<>> THEN <<>> ELSE peak_hours_of(h_rows')
    /\ hpc' = "done"
    /\ UNCHANGED <<m_events, agent_breakdown, tier_breakdown>>

(***************************************************************************)
(* GenesisWebhookService.handle_webhook_failure (genesis_webhook.py        *)
(* 265-297) and send_to_dead_letter_queue (299-327).  Nothing in the       *)
(* repository calls handle_webhook_failure: its callers are the callers of *)
(* the model, with any payload and any attempt number.  The branch         *)
(* attempt < max_retries logs, sleeps and returns: lines 288-289 are a     *)
(* comment, nothing is processed again and nothing is enqueued.            *)
(***************************************************************************)
max_retries == 3     \* self.max_retries (line 31)
retry_delay == 1     \* self.retry_delay, seconds (line 32)

NoCall == [payload |-> None, attempt |-> 0]
Payloads == {"p1", "p2"}

RECURSIVE Pow2(_)
Pow2(n) == IF n = 0 THEN 1 ELSE 2 * Pow2(n - 1)

\* delay = self.retry_delay * (2 ** attempt)
webhook_delay(attempt) == retry_delay * Pow2(attempt)

\* a caller awaits handle_webhook_failure(webhook_payload, error, attempt)
webhook_failure_call(payload, attempt) ==
    /\ wpc = "idle"
    /\ w_calls < MaxWebhookCalls
    /\ w_calls' = w_calls + 1
    /\ w_call' = [payload |-> payload, attempt |-> attempt]
    /\ wpc' = "try"
    /\ UNCHANGED <<w_sleeps, w_returned, dead_letter>>

\* lines 280-294: the retry branch suspends in asyncio.sleep(delay); the other
\* branch awaits send_to_dead_letter_queue (309-324), which logs the item and
\* notifies, and the handler returns
webhook_failure_branch ==
    /\ wpc = "try"
    /\ IF w_call.attempt < max_retries
       THEN /\ w_sleeps' = Append(w_sleeps, [payload |-> w_call.payload,
                                              attempt |-> w_call.attempt,
                                              delay   |-> webhook_delay(w_call.attempt)])
            /\ wpc' = "sleep"
            /\ UNCHANGED <<w_call, w_returned, dead_letter>>
       ELSE /\ dead_letter' = Append(dead_letter, w_call.payload)
            /\ w_returned' = Append(w_returned, w_call)
            /\ w_call' = NoCall
            /\ wpc' = "idle"
            /\ UNCHANGED w_sleeps
    /\ UNCHANGED w_calls

\* the sleep of line 285 ends and the handler returns
webhook_failure_wake ==
    /\ wpc = "sleep"
    /\ w_returned' = Append(w_returned, w_call)
    /\ w_call' = NoCall
    /\ wpc' = "idle"
    /\ UNCHANGED <<w_calls, w_sleeps, dead_letter>>

(***************************************************************************)
(* One cycle of a polling monitor (intelligent_alerts.py 223-231, 329-337, *)
(* 357-365, 414-422):  try: await self._check_x(); await sleep(normal)     *)
(* except Exception: await sleep(retry).  Each _check_x is itself          *)
(* try: ... except Exception as e: logger.error(...)  (233-327, 339-355,   *)
(* 367-412, 424-450), so a failure of its data-source access ends the      *)
(* check, is logged there, and the check returns normally.                 *)
(***************************************************************************)
Monitors == {"usage", "anomaly", "churn", "performance"}
normal_interval == [usage |-> 300, anomaly |-> 900, churn |-> 3600, performance |-> 1800]
retry_interval  == [usage |-> 60, anomaly |-> 300, churn |-> 600, performance |-> 600]
NoCycle == [pc |-> "idle", failed |-> FALSE, sleep |-> 0]

\* does _check_x let an exception out to the loop, given the outcome of its
\* data-source access: its own except clause catches every Exception
check_raises(m, db_ok) == FALSE

\* the sleep the loop takes after the check
sleep_after(m, raises) == IF raises THEN retry_interval[m] ELSE normal_interval[m]

\* the task of monitor m is created and enters its first cycle
monitor_start(m) ==
    /\ cyc[m].pc = "idle"
    /\ cyc' = [cyc EXCEPT ![m].pc = "check"]
    /\ UNCHANGED cycles

\* the check of one cycle runs, its data-source access succeeds or fails, and
\* the loop goes to sleep
monitor_check(m, db_ok) ==
    /\ cyc[m].pc = "check"
    /\ cyc' = [cyc EXCEPT ![m] = [pc |-> "sleep", failed |-> ~db_ok,
                                  sleep |-> sleep_after(m, check_raises(m, db_ok))]]
    /\ UNCHANGED cycles

\* the sleep is over: the next cycle
monitor_wake(m) ==
    /\ cyc[m].pc = "sleep"
    /\ cycles < MaxCycles
    /\ cycles' = cycles + 1
    /\ cyc' = [cyc EXCEPT ![m].pc = "check"]

CycleIdle == cyc = [m \in Monitors |-> NoCycle] /\ cycles = 0

WebhookIdle ==
    /\ wpc = "idle" /\ w_call = NoCall /\ w_calls = 0
    /\ w_sleeps = <<>> /\ w_returned = <<>> /\ dead_letter = <<>>

(***************************************************************************)
(* Initial values: the state after IntelligentAlertsService.__init__ and   *)
(* ConnectionManager.__init__, with no task running.                       *)
(***************************************************************************)
AlertInit ==
    /\ alerts = <<>>
    /\ active_alerts = <<>>
    /\ alert_history = <<>>
    /\ notification_queue = <<>>
    /\ usage_alerts = {}
    /\ now = 0
    /\ db_errors = 0
    /\ tpc = [t \in Tasks |-> "idle"]
    /\ targs = [t \in Tasks |-> NoArgs]
    /\ talert = [t \in Tasks |-> 0]
    /\ ret = [op |-> None, id |-> 0, ok |-> FALSE]
    /\ resolved_ok = {}

UsageIdle ==
    /\ upc = "idle"
    /\ u_rows = <<>>
    /\ u_idx = 0
    /\ month = 1
    /\ u_triggered = <<>>

PerfIdle ==
    /\ ppc = "idle"
    /\ p_idx = 0
    /\ p_degraded = {}

NotifyIdle ==
    /\ npc = "idle"
    /\ n_item = NoItem
    /\ n_idx = 0
    /\ sent_channels = <<>>
    /\ attempts = <<>>
    /\ dispatched = <<>>

ConnIdle ==
    /\ active_connections = <<>>
    /\ conn_state = [c \in Conns |-> "new"]
    /\ bpc = "idle"
    /\ b_idx = 0
    /\ b_cur = 0
    /\ sends = [c \in Conns |-> 0]
    /\ raised = {}
    /\ b_start = <<>>

LoopIdle ==
    /\ is_running = FALSE
    /\ lpc = [l \in Loops |-> NoTasks]
    /\ starts = 0

NoResponse == [status |-> 0, detail |-> None, subscription_tier |-> None, agent_id |-> None]

IngestIdle ==
    /\ agent_usage_events = {}
    /\ background_tasks = <<>>
    /\ response = NoResponse

AnomalyIdle ==
    /\ d_data = <<>>
    /\ anomalies = <<>>
    /\ apc = "idle"
    /\ a_idx = 0

PeakIdle ==
    /\ h_rows = <<>>
    /\ peak_hours = <<>>
    /\ hpc = "idle"
    /\ m_events = <<>> /\ agent_breakdown = <<>> /\ tier_breakdown = <<>>
    /\ avg_response_time = Zero

AnalyticsIdle == IngestIdle /\ AnomalyIdle /\ PeakIdle /\ WebhookIdle /\ CycleIdle

(***************************************************************************)
(* SpecTrigger: two monitor tasks calling _trigger_alert, and the clock.   *)
(* SpecLifecycle: one caller, the alert management API, the cleanup cycle  *)
(* and the clock.                                                          *)
(***************************************************************************)
\* the calls the callers make: a rule keyed by user, a rule keyed by agent
\* (agent ids reach the store as sent when posted to /events), the call of
\* _check_agent_performance, and a call without subject
TriggerCalls ==
    { [rule_id |-> "usage_exceeded", user_id |-> "u1", agent_id |-> None],
      [rule_id |-> "anomaly", user_id |-> None, agent_id |-> "detected"],
      [rule_id |-> "performance_degradation", user_id |-> None, agent_id |-> "NEXUS"],
      [rule_id |-> "churn_risk", user_id |-> None, agent_id |-> None] }

\* the calls that create the alerts of SpecLifecycle
LifecycleCalls == {c \in TriggerCalls : c.rule_id \in {"usage_exceeded", "anomaly"}}

AlertIds == 1..MaxAlerts

OthersIdle1 ==
    UNCHANGED <<usageVars, perfVars, notifyVars, connVars, loopVars, ingestVars, anomalyVars, peakVars, webhookVars, cycleVars>>

CallTrigger(t, calls) ==
    /\ t \in Callers
    /\ \E c \in calls : trigger_alert_call(t, c.rule_id, c.user_id, c.agent_id)
    /\ UNCHANGED <<alerts, active_alerts, alert_history, notification_queue, usage_alerts,
                   now, db_errors, talert, ret, resolved_ok>>
    /\ OthersIdle1

TriggerCooldown(t) == t \in Callers /\ trigger_alert_cooldown(t) /\ OthersIdle1
TriggerSave(t)     == t \in Callers /\ trigger_alert_save(t) /\ OthersIdle1
Acknowledge        == (\E id \in AlertIds, by \in Actors : acknowledge_alert(id, by)) /\ OthersIdle1
Resolve            == (\E id \in AlertIds, by \in Actors : resolve_alert(id, by)) /\ OthersIdle1
Cleanup            == alert_cleanup /\ OthersIdle1
Clock              == Tick(TickMinutes) /\ OthersIdle1

InitAlerts ==
    AlertInit /\ UsageIdle /\ PerfIdle /\ NotifyIdle /\ ConnIdle /\ LoopIdle /\ AnalyticsIdle

NextTrigger ==
    \/ \E t \in Callers : CallTrigger(t, TriggerCalls)
    \/ \E t \in Callers : TriggerCooldown(t)
    \/ \E t \in Callers : TriggerSave(t)
    \/ Clock

SpecTrigger == InitAlerts /\ [][NextTrigger]_vars

NextLifecycle ==
    \/ CallTrigger("m1", LifecycleCalls)
    \/ TriggerCooldown("m1")
    \/ TriggerSave("m1")
    \/ Acknowledge
    \/ Resolve
    \/ Cleanup
    \/ Clock

SpecLifecycle == InitAlerts /\ [][NextLifecycle]_vars

(***************************************************************************)
(* SpecBroadcast: one broadcast over a registry of open and closed         *)
(* connections, nothing else running.                                      *)
(* SpecBroadcastRace: clients connect, go away and are disconnected by     *)
(* their endpoint while a broadcast is in progress.                        *)
(***************************************************************************)
OthersIdle2 ==
    UNCHANGED <<alertVars, usageVars, perfVars, notifyVars, loopVars, ingestVars, anomalyVars, peakVars, webhookVars, cycleVars>>

\* the registries connect / disconnect can build: no connection twice
Registries == {r \in UNION {[1..n -> Conns] : n \in 0..MaxConns} :
                  \A i, j \in 1..Len(r) : i # j => r[i] # r[j]}

InitBroadcast ==
    /\ AlertInit /\ UsageIdle /\ PerfIdle /\ NotifyIdle /\ LoopIdle /\ AnalyticsIdle
    /\ active_connections \in Registries
    /\ conn_state \in [Conns -> {"new", "open", "closed"}]
    /\ \A c \in Conns : conn_state[c] = "new" <=> c \notin Range(active_connections)
    /\ bpc = "idle"
    /\ b_idx = 0
    /\ b_cur = 0
    /\ sends = [c \in Conns |-> 0]
    /\ raised = {}
    /\ b_start = <<>>

BroadcastStart     == broadcast_start /\ OthersIdle2
BroadcastSend      == broadcast_send /\ OthersIdle2
Connect            == (\E c \in Conns : connect(c)) /\ OthersIdle2
ClientClose        == (\E c \in Conns : client_close(c)) /\ OthersIdle2
EndpointDisconnect == (\E c \in Conns : endpoint_disconnect(c)) /\ OthersIdle2

NextBroadcast == BroadcastStart \/ BroadcastSend

SpecBroadcast == InitBroadcast /\ [][NextBroadcast]_vars

InitBroadcastRace ==
    AlertInit /\ UsageIdle /\ PerfIdle /\ NotifyIdle /\ LoopIdle /\ ConnIdle /\ AnalyticsIdle

NextBroadcastRace ==
    \/ BroadcastStart
    \/ BroadcastSend
    \/ Connect
    \/ ClientClose
    \/ EndpointDisconnect

SpecBroadcastRace == InitBroadcastRace /\ [][NextBroadcastRace]_vars

(***************************************************************************)
(* SpecUsage: one cycle of the usage-limit monitor, in any month.          *)
(* SpecPerf: one cycle of the performance monitor.                         *)
(***************************************************************************)
InitUsage ==
    /\ AlertInit /\ PerfIdle /\ NotifyIdle /\ ConnIdle /\ LoopIdle /\ AnalyticsIdle
    /\ upc = "idle"
    /\ u_rows = <<>>
    /\ u_idx = 0
    /\ month \in {6, 12}
    /\ u_triggered = <<>>

OthersIdle3 ==
    UNCHANGED <<perfVars, notifyVars, connVars, loopVars, ingestVars, anomalyVars, peakVars, webhookVars, cycleVars>>

UsageFetch    == usage_fetch /\ OthersIdle3
UsageRow      == usage_row /\ OthersIdle3
UsageDone     == usage_done /\ OthersIdle3
UsageCooldown == trigger_alert_cooldown("usage") /\ UNCHANGED usageVars /\ OthersIdle3
UsageSave     == trigger_alert_save("usage") /\ UNCHANGED usageVars /\ OthersIdle3

NextUsage == UsageFetch \/ UsageRow \/ UsageDone \/ UsageCooldown \/ UsageSave

SpecUsage == InitUsage /\ [][NextUsage]_vars

OthersIdle4 ==
    UNCHANGED <<usageVars, notifyVars, connVars, loopVars, ingestVars, anomalyVars, peakVars, webhookVars, cycleVars>>

PerfStart == perf_start /\ OthersIdle4
PerfAgent == perf_agent /\ OthersIdle4
PerfDone  == perf_done /\ OthersIdle4

NextPerf == PerfStart \/ PerfAgent \/ PerfDone

SpecPerf == InitAlerts /\ [][NextPerf]_vars

(***************************************************************************)
(* SpecNotify: one caller triggers alerts of the rules of the registry,    *)
(* the notification processor dispatches them.                             *)
(***************************************************************************)
\* one rule for each list of channels that the registry configures
NotifyRules == {"usage_approaching", "usage_exceeded", "churn_risk", "upgrade_opportunity"}
RegistryCalls == {[rule_id |-> r, user_id |-> "u1", agent_id |-> None] : r \in NotifyRules}

OthersIdle5 ==
    UNCHANGED <<usageVars, perfVars, connVars, loopVars, ingestVars, anomalyVars, peakVars, webhookVars, cycleVars>>

NotifyTrigger  == CallTrigger("m1", RegistryCalls)
NotifyCooldown == TriggerCooldown("m1")
NotifySave     == TriggerSave("m1")
NotifyGet      == notification_get /\ OthersIdle5
NotifySend     == notification_send /\ OthersIdle5

NextNotify == NotifyTrigger \/ NotifyCooldown \/ NotifySave \/ NotifyGet \/ NotifySend

SpecNotify == InitAlerts /\ [][NextNotify]_vars

(***************************************************************************)
(* SpecLoops: monitoring is started and stopped while the six loops run.   *)
(* A sleep ends and the body of a cycle ends: weak fairness on both.       *)
(***************************************************************************)
OthersIdle6 ==
    UNCHANGED <<alertVars, usageVars, perfVars, notifyVars, connVars, ingestVars, anomalyVars, peakVars, webhookVars, cycleVars>>

StartMonitoring == starts < MaxStarts /\ start_monitoring /\ OthersIdle6
StopMonitoring  == stop_monitoring /\ OthersIdle6
LoopWake(l)     == (\E from \in {"wait", "backoff"} : loop_wake(l, from)) /\ OthersIdle6
LoopCycle(l)    == (\E outcome \in CycleOutcomes : loop_cycle(l, outcome)) /\ OthersIdle6

NextLoops ==
    \/ StartMonitoring
    \/ StopMonitoring
    \/ \E l \in Loops : LoopWake(l)
    \/ \E l \in Loops : LoopCycle(l)

SpecLoops ==
    /\ InitAlerts
    /\ [][NextLoops]_vars
    /\ \A l \in Loops : WF_vars(LoopWake(l)) /\ WF_vars(LoopCycle(l))

(***************************************************************************)
(* SpecDispatch: monitoring is started and stopped; while it is running a  *)
(* monitor triggers alerts and the notification processor takes items off  *)
(* the queue (it begins a get only after its while test, 545-551).  A call *)
(* of _trigger_alert runs to its end, the processor is scheduled, and a    *)
(* send ends: weak fairness on these steps.                                *)
(***************************************************************************)
DispatchStart   == starts < MaxStarts /\ start_monitoring /\ OthersIdle6
DispatchStop    == stop_monitoring /\ OthersIdle6
\* two rules whose lists of channels differ
DispatchCalls ==
    {[rule_id |-> r, user_id |-> "u1", agent_id |-> None] : r \in {"usage_approaching", "usage_exceeded"}}
DispatchTrigger == is_running /\ CallTrigger("m1", DispatchCalls)
DispatchGet     == is_running /\ notification_get /\ OthersIdle5

NextDispatch ==
    \/ DispatchStart
    \/ DispatchStop
    \/ DispatchTrigger
    \/ NotifyCooldown
    \/ NotifySave
    \/ DispatchGet
    \/ NotifySend

SpecDispatch ==
    /\ InitAlerts
    /\ [][NextDispatch]_vars
    /\ WF_vars(NotifyCooldown) /\ WF_vars(NotifySave)
    /\ WF_vars(DispatchGet) /\ WF_vars(NotifySend)

(***************************************************************************)
(* SpecIngest: usage events are posted to /events.                         *)
(***************************************************************************)
OthersIdle7 ==
    UNCHANGED <<alerts, active_alerts, alert_history, notification_queue, usage_alerts,
                now, tpc, targs, talert, ret, resolved_ok,
                usageVars, perfVars, notifyVars, connVars, loopVars, anomalyVars, peakVars, webhookVars, cycleVars>>

ReceiveUsageEvent ==
    /\ \E tier \in EventTiers, agent_id \in EventAgents : receive_usage_event(tier, agent_id)
    /\ OthersIdle7

NextIngest == ReceiveUsageEvent

SpecIngest == InitAlerts /\ [][NextIngest]_vars

(***************************************************************************)
(* SpecDetect: the anomaly detector applied to the daily rows of one agent.*)
(***************************************************************************)
InitDetect ==
    /\ AlertInit /\ UsageIdle /\ PerfIdle /\ NotifyIdle /\ ConnIdle /\ LoopIdle
    /\ IngestIdle /\ PeakIdle /\ WebhookIdle /\ CycleIdle
    /\ d_data \in DailyData
    /\ anomalies = <<>>
    /\ apc = "idle"
    /\ a_idx = 0

AnomalyDetect ==
    /\ anomaly_detect
    /\ UNCHANGED <<alertVars, usageVars, perfVars, notifyVars, connVars, loopVars,
                   ingestVars, peakVars, webhookVars, cycleVars>>

NextDetect == AnomalyDetect

SpecDetect == InitDetect /\ [][NextDetect]_vars

(***************************************************************************)
(* SpecAnomaly: one cycle of the anomaly monitor.                          *)
(***************************************************************************)
OthersIdle8 ==
    UNCHANGED <<usageVars, perfVars, notifyVars, connVars, loopVars, ingestVars, peakVars, webhookVars, cycleVars>>

AnomalyFetch    == anomaly_fetch /\ OthersIdle8
AnomalyRow      == anomaly_row /\ OthersIdle8
AnomalyDone     == anomaly_done /\ OthersIdle8
AnomalyCooldown == trigger_alert_cooldown("anomaly") /\ UNCHANGED anomalyVars /\ OthersIdle8
AnomalySave     == trigger_alert_save("anomaly") /\ UNCHANGED anomalyVars /\ OthersIdle8

NextAnomaly == AnomalyFetch \/ AnomalyRow \/ AnomalyDone \/ AnomalyCooldown \/ AnomalySave

SpecAnomaly == InitAlerts /\ [][NextAnomaly]_vars

(***************************************************************************)
(* SpecCleanup: alerts are triggered and resolved, the cleanup cycle runs, *)
(* and the clock advances by whole retention periods.                      *)
(***************************************************************************)
CleanupCalls == {c \in TriggerCalls : c.rule_id = "usage_exceeded"}

ClockRetention == Tick(RetentionMinutes) /\ OthersIdle1

NextCleanup ==
    \/ CallTrigger("m1", CleanupCalls)
    \/ TriggerCooldown("m1")
    \/ TriggerSave("m1")
    \/ Resolve
    \/ Cleanup
    \/ ClockRetention

SpecCleanup == InitAlerts /\ [][NextCleanup]_vars

(***************************************************************************)
(* SpecManage: alerts are triggered, acknowledged and resolved, and the    *)
(* cleanup cycle removes resolved alerts from the active set.              *)
(***************************************************************************)
NextManage ==
    \/ CallTrigger("m1", CleanupCalls)
    \/ TriggerCooldown("m1")
    \/ TriggerSave("m1")
    \/ Acknowledge
    \/ Resolve
    \/ Cleanup

SpecManage == InitAlerts /\ [][NextManage]_vars

(***************************************************************************)
(* SpecPeak: the peak hours of the rows returned by the metrics query.     *)
(***************************************************************************)
InitPeak ==
    /\ AlertInit /\ UsageIdle /\ PerfIdle /\ NotifyIdle /\ ConnIdle /\ LoopIdle
    /\ IngestIdle /\ AnomalyIdle /\ WebhookIdle /\ CycleIdle
    /\ h_rows \in HourResults
    /\ peak_hours = <<>>
    /\ hpc = "idle"
    /\ m_events = <<>> /\ agent_breakdown = <<>> /\ tier_breakdown = <<>>
    /\ avg_response_time = Zero

PeakHoursCompute ==
    /\ peak_hours_compute
    /\ UNCHANGED <<alertVars, usageVars, perfVars, notifyVars, connVars, loopVars,
                   ingestVars, anomalyVars, webhookVars, cycleVars>>

NextPeak == PeakHoursCompute

SpecPeak == InitPeak /\ [][NextPeak]_vars

(***************************************************************************)
(* SpecMetrics: calculate_usage_metrics on the events of a window.         *)
(***************************************************************************)
InitMetrics ==
    /\ AlertInit /\ UsageIdle /\ PerfIdle /\ NotifyIdle /\ ConnIdle /\ LoopIdle
    /\ IngestIdle /\ AnomalyIdle /\ WebhookIdle /\ CycleIdle
    /\ m_events \in MetricWindows
    /\ h_rows = <<>> /\ peak_hours = <<>>
    /\ agent_breakdown = <<>> /\ tier_breakdown = <<>>
    /\ avg_response_time = Zero
    /\ hpc = "idle"

CalculateUsageMetrics ==
    /\ calculate_usage_metrics
    /\ UNCHANGED <<alertVars, usageVars, perfVars, notifyVars, connVars, loopVars,
                   ingestVars, anomalyVars, webhookVars, cycleVars>>

NextMetrics == CalculateUsageMetrics

SpecMetrics == InitMetrics /\ [][NextMetrics]_vars

(***************************************************************************)
(* SpecWebhook: calls of handle_webhook_failure, one at a time.            *)
(***************************************************************************)
OthersIdle9 ==
    UNCHANGED <<alertVars, usageVars, perfVars, notifyVars, connVars, loopVars,
                ingestVars, anomalyVars, peakVars, cycleVars>>

WebhookFailureCall ==
    /\ \E p \in Payloads, attempt \in 1..(max_retries + 1) : webhook_failure_call(p, attempt)
    /\ OthersIdle9
WebhookFailureBranch == webhook_failure_branch /\ OthersIdle9
WebhookFailureWake   == webhook_failure_wake /\ OthersIdle9

NextWebhook == WebhookFailureCall \/ WebhookFailureBranch \/ WebhookFailureWake

SpecWebhook == InitAlerts /\ [][NextWebhook]_vars

(***************************************************************************)
(* SpecBackoff: the cycles of the four polling monitors.                   *)
(***************************************************************************)
OthersIdle10 ==
    UNCHANGED <<alertVars, usageVars, perfVars, notifyVars, connVars, loopVars,
                ingestVars, anomalyVars, peakVars, webhookVars>>

MonitorStart == \E m \in Monitors : monitor_start(m) /\ OthersIdle10
MonitorCheck == \E m \in Monitors, db_ok \in BOOLEAN : monitor_check(m, db_ok) /\ OthersIdle10
MonitorWake  == \E m \in Monitors : monitor_wake(m) /\ OthersIdle10

NextBackoff == MonitorStart \/ MonitorCheck \/ MonitorWake

SpecBackoff == InitAlerts /\ [][NextBackoff]_vars

(***************************************************************************)
(* SpecAgentPerf: analyze_agent_performance on the events of one agent.    *)
(***************************************************************************)
InitAgentPerf ==
    /\ AlertInit /\ UsageIdle /\ PerfIdle /\ NotifyIdle /\ ConnIdle /\ LoopIdle
    /\ IngestIdle /\ AnomalyIdle /\ WebhookIdle /\ CycleIdle
    /\ m_events \in AgentWindows
    /\ h_rows = <<>> /\ peak_hours = <<>>
    /\ agent_breakdown = <<>> /\ tier_breakdown = <<>>
    /\ avg_response_time = Zero
    /\ hpc = "idle"

AnalyzeAgentPerformance ==
    /\ analyze_agent_performance
    /\ UNCHANGED <<alertVars, usageVars, perfVars, notifyVars, connVars, loopVars,
                   ingestVars, anomalyVars, webhookVars, cycleVars>>

NextAgentPerf == AnalyzeAgentPerformance

SpecAgentPerf == InitAgentPerf /\ [][NextAgentPerf]_vars

(***************************************************************************)
(* SpecRestart: monitoring is started, stopped and started again.  Every   *)
(* start creates the six tasks; of these the usage monitor and the         *)
(* notification processor are scheduled.                                   *)
(***************************************************************************)
RestartLoops == {"usage", "notifier"}

RestartStart == starts < MaxRestarts /\ start_monitoring /\ OthersIdle6
RestartStop  == stop_monitoring /\ OthersIdle6
RestartWake  == \E l \in RestartLoops : LoopWake(l)
RestartCycle == \E l \in RestartLoops : LoopCycle(l)

NextRestart == RestartStart \/ RestartStop \/ RestartWake \/ RestartCycle

SpecRestart == InitAlerts /\ [][NextRestart]_vars

(***************************************************************************)
(* Properties.                                                             *)
(***************************************************************************)
\* the persisted alerts of the same rule and subject as the call a, triggered
\* less than the rule's cooldown ago
RecentPersisted(a) ==
    {row \in usage_alerts :
        /\ alerts[row.id].rule_id = a.rule_id
        /\ subject_of(alerts[row.id].user_id, alerts[row.id].agent_id)
              = subject_of(a.user_id, a.agent_id)
        /\ row.triggered_at > now - alert_rules[a.rule_id].cooldown_minutes}

\* C1: a call of _trigger_alert for rule R and subject S made less than
\* R.cooldown_minutes after a persisted alert of (R, S) is suppressed (it creates
\* no alert), and a call made when no such alert exists creates one; the datastore
\* working.
C1_CooldownSuppresses ==
    [][\A t \in Callers :
          (tpc[t] = "cooldown" /\ tpc'[t] # "cooldown" /\ db_errors' = 0) =>
             IF RecentPersisted(targs[t]) # {}
             THEN Len(alerts') = Len(alerts)
             ELSE Len(alerts') = Len(alerts) + 1]_vars

\* C2: two concurrent calls of _trigger_alert for the same rule and subject never
\* both create an alert within the cooldown window: the cooldown check and the
\* persistence write of one call are not interleaved with those of the other.
C2_CheckAndWriteAtomic ==
    \A t1, t2 \in Callers :
       (t1 # t2 /\ tpc[t1] = "save" /\ tpc[t2] = "save"
          /\ targs[t1].rule_id = targs[t2].rule_id
          /\ subject_of(targs[t1].user_id, targs[t1].agent_id)
                = subject_of(targs[t2].user_id, targs[t2].agent_id))
       => \/ alerts[talert[t1]].triggered_at - alerts[talert[t2]].triggered_at
                >= alert_rules[targs[t1].rule_id].cooldown_minutes
          \/ alerts[talert[t2]].triggered_at - alerts[talert[t1]].triggered_at
                >= alert_rules[targs[t1].rule_id].cooldown_minutes

\* C3: once resolve_alert(id) has returned True, the alert has resolved_at set and
\* get_active_alerts does not return it, cleanup cycle or not.
C3_ResolvedNotActive ==
    \A id \in resolved_ok :
       /\ alerts[id].resolved_at # NoTime
       /\ id \notin Range(get_active_alerts(DefaultLimit))

\* C4: resolved is terminal: once resolved_at is set, no acknowledge_alert or
\* resolve_alert call succeeds on the alert or changes acknowledged_at,
\* acknowledged_by or resolved_at.
C4_ResolvedTerminal ==
    [][\A id \in 1..Len(alerts) :
          alerts[id].resolved_at # NoTime =>
             /\ alerts'[id].resolved_at = alerts[id].resolved_at
             /\ alerts'[id].acknowledged_at = alerts[id].acknowledged_at
             /\ alerts'[id].acknowledged_by = alerts[id].acknowledged_by
             /\ ~(ret' # ret /\ ret'.id = id /\ ret'.ok)]_vars

\* C5: a broadcast that has ended has sent the message exactly once to every
\* connection registered when it began, has removed every connection that failed
\* on send and has kept every other connection.
C5_BroadcastReachesAll ==
    bpc = "done" =>
       \A c \in Range(b_start) :
          /\ sends[c] = 1
          /\ conn_state[c] = "closed" => c \notin Range(active_connections)
          /\ conn_state[c] = "open" => c \in Range(active_connections)

\* C6: with connects and disconnects interleaved with a broadcast, neither
\* broadcast nor disconnect raises, no connection that stays registered during the
\* broadcast is skipped, and once the broadcast has ended and every endpoint has
\* seen its client leave, the registry holds exactly the open connections.
C6_RegistryRaceFree ==
    /\ raised = {}
    /\ bpc = "done" =>
          \A c \in Range(b_start) : c \in Range(active_connections) => sends[c] = 1
    /\ (bpc = "done" /\ \A c \in Conns : conn_state[c] # "closed") =>
          Range(active_connections) = {c \in Conns : conn_state[c] = "open"}

\* the rule a row should trigger when exceeded takes precedence over approaching
\* and approaching over upgrade-candidate
PriorityRule(row) ==
    IF usage_at_least(row, 95) THEN "usage_exceeded"
    ELSE IF usage_at_least(row, 80) THEN "usage_approaching"
    ELSE IF usage_at_least(row, 85) /\ row.subscription_tier \in {"essential", "pro"}
            /\ row.active_days >= 15
    THEN "upgrade_opportunity"
    ELSE None

\* C7: in one cycle of the usage-limit monitor at most one rule is triggered per
\* user, and it is the first that matches in the order exceeded, approaching,
\* upgrade-candidate.
C7_OneRulePerUser ==
    /\ \A i, j \in 1..Len(u_triggered) :
          i # j => u_triggered[i].user_id # u_triggered[j].user_id
    /\ \A i \in 1..Len(u_triggered) :
          u_triggered[i].rule_id = PriorityRule(u_rows[u_triggered[i].row])

\* C8: when a cycle of the performance monitor has ended, every agent found with
\* an average response time above 5000 ms over more than 10 interactions has an
\* alert in the active set and in the notification queue, and no other agent has.
C8_DegradedAgentAlerted ==
    ppc = "done" =>
       \A i \in 1..Len(agents) :
          (agents[i] \in p_degraded) <=>
             \E id \in Range(active_alerts) :
                /\ alerts[id].agent_id = agents[i]
                /\ \E k \in 1..Len(notification_queue) : notification_queue[k].alert = id

\* the channels of attempts whose send succeeded, in order
RECURSIVE Succeeded(_)
Succeeded(att) ==
    IF att = <<>> THEN <<>>
    ELSE (IF att[1].outcome = "ok" THEN <<att[1].channel>> ELSE <<>>) \o Succeeded(Tail(att))

\* C9: when _send_notifications has ended, every channel of the rule has been
\* tried exactly once, in order, whatever the earlier channels did, and
\* alert.channels_sent holds exactly the channels whose send succeeded.
C9_ChannelsIsolated ==
    (npc = "idle" /\ n_item # NoItem) =>
       /\ Len(attempts) = Len(n_item.channels)
       /\ \A i \in 1..Len(attempts) : attempts[i].channel = n_item.channels[i]
       /\ alerts[n_item.alert].channels_sent = Succeeded(attempts)

\* C9 witness: the dashboard send failed, the e-mail send after it succeeded and
\* is the only channel recorded
C9_Witness ==
    /\ npc = "idle" /\ n_item # NoItem
    /\ Len(attempts) = 2
    /\ attempts[1] = [channel |-> "dashboard", outcome |-> "false"]
    /\ attempts[2] = [channel |-> "email", outcome |-> "ok"]
    /\ alerts[n_item.alert].channels_sent = <<"email">>

\* C10: while monitoring is running no step ends a task of any of the six
\* loops, whatever the outcome of a cycle; a step that touches the tasks leaves
\* the running flag alone; and a task that is in the back-off after a failed
\* cycle leads to a cycle of that loop running again, or to monitoring having
\* been stopped.
C10_LoopsSurviveFailure ==
    /\ [][ /\ \A l \in Loops :
                live_tasks(lpc'[l]) < live_tasks(lpc[l]) => ~is_running
           /\ (is_running /\ ~is_running') => lpc' = lpc ]_vars
    /\ \A l \in Loops :
          (lpc[l].backoff > 0) ~> (lpc[l].body > 0 \/ ~is_running)

\* C10 witness: a cycle of the usage loop has failed, its task is in the
\* back-off, monitoring is still running and every loop still has its task
C10_Witness ==
    /\ is_running
    /\ lpc["usage"].backoff > 0
    /\ \A l \in Loops : live_tasks(lpc[l]) = starts

\* C11: once stop_monitoring has cleared the running flag, and for as long as
\* monitoring is not started again, no task of any loop starts a new cycle (the
\* cycles in flight can only end), and every loop ends: all its tasks are gone.
C11_StopEndsLoops ==
    /\ [][ (~is_running /\ ~is_running') =>
              \A l \in Loops : lpc'[l].body <= lpc[l].body ]_vars
    /\ \A l \in Loops :
          (~is_running /\ starts > 0) ~> (is_running \/ live_tasks(lpc[l]) = 0)

\* C11 witness: monitoring was stopped while a cycle of the usage loop was in
\* flight; the cleanup loop has already seen the flag and ended
C11_Witness ==
    /\ ~is_running
    /\ starts > 0
    /\ lpc["usage"].body > 0
    /\ live_tasks(lpc["cleanup"]) = 0

\* alert id has been handed to _send_notifications, which has ended
Dispatched(id) == \E i \in 1..Len(dispatched) : dispatched[i].alert = id

\* C12: every alert that _trigger_alert has created is eventually dispatched,
\* unless monitoring stops first; no alert is dispatched twice, and a dispatch
\* tries exactly the channels configured on the rule of the alert.
C12_CreatedAlertDispatched ==
    /\ [](\A i, j \in 1..Len(dispatched) :
             /\ i # j => dispatched[i].alert # dispatched[j].alert
             /\ dispatched[i].channels =
                   alert_rules[alerts[dispatched[i].alert].rule_id].channels)
    /\ \A id \in 1..MaxAlerts :
          (id \in Range(alert_history)) ~> (Dispatched(id) \/ ~is_running)

\* C12 witness: two alerts were created while monitoring was running, and both
\* have been dispatched, the usage_exceeded one to its three channels
C12_Witness ==
    /\ is_running
    /\ Len(dispatched) = 2
    /\ Dispatched(1) /\ Dispatched(2)
    /\ \E i \in 1..2 : dispatched[i].channels = <<"dashboard", "email", "slack">>

\* C13: once the call of _trigger_alert that created an alert has returned, the
\* alert is persisted, active, in the history and enqueued, or it is none of the
\* four.
C13_TriggerAllOrNothing ==
    \A id \in 1..Len(alerts) :
       (\A t \in Tasks : talert[t] # id) =>
          LET persisted == \E row \in usage_alerts : row.id = id
              active    == id \in Range(active_alerts)
              recorded  == id \in Range(alert_history)
              enqueued  == \E i \in 1..Len(notification_queue) :
                              notification_queue[i].alert = id
          IN  \/ persisted /\ active /\ recorded /\ enqueued
              \/ ~persisted /\ ~active /\ ~recorded /\ ~enqueued

\* C14: an event whose agent is not in the allowed set of its tier is answered
\* with status 400, and no row of agent_usage_events and no background task
\* comes from it.
C14_DisallowedAgentRejected ==
    /\ (response # NoResponse
          /\ ~agent_allowed(response.subscription_tier, response.agent_id)) =>
            response.status = 400 /\ background_tasks = <<>>
    /\ \A e \in agent_usage_events : agent_allowed(e.subscription_tier, e.agent_id)

\* C15: for a tier that is not a known tier the consumers use the essential
\* entry: the ingestion accepts exactly the agents of essential, and the
\* usage-limit monitor and the insight scorer use its token limit.
C15_UnknownTierIsEssential ==
    /\ (response # NoResponse /\ response.subscription_tier \notin DOMAIN TIER_LIMITS) =>
          ((response.detail # "not allowed")
              <=> response.agent_id \in Range(TIER_LIMITS["essential"].agents))
    /\ \A tier \in EventTiers \ DOMAIN TIER_LIMITS :
          /\ tier_limit(tier) = TIER_LIMITS["essential"].total_tokens
          /\ insights_tier_limit(tier) = TIER_LIMITS["essential"].total_tokens

\* the column of daily interaction counts
Interactions(rows) == [i \in 1..Len(rows) |-> rows[i].interactions]

\* C16: on the daily interaction counts 10,10,10,10,100 the detector reports the
\* last day as an interaction_spike, and on the constant counts 10,10,10,10 it
\* reports no anomaly of the interaction metric.
C16_SpikeFlagged ==
    apc = "detected" =>
       /\ Interactions(d_data) = <<10, 10, 10, 10, 100>> =>
             \E i \in 1..Len(anomalies) :
                anomalies[i].type = "interaction_spike" /\ anomalies[i].day = 5
       /\ Interactions(d_data) = <<10, 10, 10, 10>> =>
             \A i \in 1..Len(anomalies) :
                anomalies[i].type \notin {"interaction_spike", "interaction_drop"}

C18_CleanupFrame ==
    [][ Cleanup =>
          LET within(id)     == now - alerts[id].triggered_at < RetentionMinutes
              unresolved(id) == alerts[id].resolved_at = NoTime
          IN  /\ alert_history' = SelectSeq(alert_history, within)
              /\ Range(active_alerts') = {id \in Range(active_alerts) : unresolved(id)}
              /\ Len(active_alerts') = Cardinality(Range(active_alerts'))
              /\ alerts' = alerts ]_vars

\* C18 witness: after a cleanup an unresolved alert older than 7 days is still
\* active though it left the history, and a resolved alert has left the active set
C18_Witness ==
    /\ \E id \in Range(active_alerts) :
          /\ alerts[id].resolved_at = NoTime
          /\ now - alerts[id].triggered_at > RetentionMinutes
          /\ id \notin Range(alert_history)
    /\ \E id \in 1..Len(alerts) :
          alerts[id].resolved_at # NoTime /\ id \notin Range(active_alerts)

\* C19: acknowledge_alert and resolve_alert called with an id that is not in the
\* active set return False and change nothing: no alert, not the active set, not
\* the history, not the stored rows, and no datastore call is made.
C19_UnknownIdIsNoOp ==
    [][ \A id \in AlertIds, by \in Actors :
          (id \notin Range(active_alerts)
              /\ (acknowledge_alert(id, by) \/ resolve_alert(id, by))) =>
             /\ ret'.id = id /\ ~ret'.ok
             /\ UNCHANGED <<alerts, active_alerts, alert_history, notification_queue,
                            usage_alerts, db_errors, resolved_ok>> ]_vars

\* C19 witness: alert 1 was resolved and removed by the cleanup; acknowledging it
\* then failed, with no datastore failure, and left it unacknowledged
C19_Witness ==
    /\ ret = [op |-> "acknowledge", id |-> 1, ok |-> FALSE]
    /\ db_errors = 0
    /\ Len(alerts) >= 1
    /\ 1 \notin Range(active_alerts)
    /\ alerts[1].resolved_at # NoTime
    /\ alerts[1].acknowledged_at = NoTime

\* hour g ranks before hour h: higher summed count, or equal count and lower hour
RanksBefore(rows, g, h) ==
    \/ hour_usage(rows, g) > hour_usage(rows, h)
    \/ hour_usage(rows, g) = hour_usage(rows, h) /\ g < h

\* C20: whatever the order of the rows, peak_hours lists the (up to) 3 hours of
\* highest summed interaction count, by descending count, the lower hour first
\* among hours of equal count.
C20_PeakHoursOrder ==
    hpc = "done" =>
       LET hours == {h_rows[i].hour : i \in 1..Len(h_rows)}
           n     == IF Cardinality(hours) < 3 THEN Cardinality(hours) ELSE 3
       IN  /\ Len(peak_hours) = n
           /\ \A i \in 1..n : peak_hours[i] \in hours
           /\ \A i, j \in 1..n : i < j => RanksBefore(h_rows, peak_hours[i], peak_hours[j])
           /\ \A h \in hours \ Range(peak_hours) :
                 \A i \in 1..n : RanksBefore(h_rows, peak_hours[i], h)

\* the distinct users with at least one event of the agent, of the tier
users_of_agent(a) == {m_events[i].user_id : i \in {j \in 1..Len(m_events) : m_events[j].agent_id = a}}
users_of_tier(t) ==
    {m_events[i].user_id : i \in {j \in 1..Len(m_events) : m_events[j].subscription_tier = t}}

\* C21: the 'users' count of every entry of agent_breakdown and of tier_breakdown
\* is the number of distinct users with at least one event of that agent or tier.
C21_UsersAreDistinctUsers ==
    hpc = "done" =>
       /\ \A a \in DOMAIN agent_breakdown :
             agent_breakdown[a].users = Cardinality(users_of_agent(a))
       /\ \A t \in DOMAIN tier_breakdown :
             tier_breakdown[t].users = Cardinality(users_of_tier(t))

\* C22: a failing item is retried with delay retry_delay * 2^attempt while
\* attempt < max_retries and reaches the dead-letter path once when the maximum
\* is reached; no item whose handling has ended is left without a further
\* attempt under way and outside the dead-letter path.
C22_RetriedThenDeadLettered ==
    /\ \A i \in 1..Len(w_sleeps) :
          /\ w_sleeps[i].attempt < max_retries
          /\ w_sleeps[i].delay = retry_delay * Pow2(w_sleeps[i].attempt)
    /\ \A i \in 1..Len(w_returned) :
          LET item == w_returned[i].payload
          IN  \/ item \in Range(dead_letter)
              \/ wpc # "idle" /\ w_call.payload = item

\* C23: after a cycle whose data-source access failed a polling monitor sleeps
\* its retry interval (60, 300, 600, 600 s); after a successful cycle it sleeps
\* its normal interval (300, 900, 3600, 1800 s).
C23_FailedCycleBacksOff ==
    \A m \in Monitors :
       cyc[m].pc = "sleep" =>
          cyc[m].sleep = IF cyc[m].failed THEN retry_interval[m] ELSE normal_interval[m]

\* C24: each of the three classes of the usage-limit monitor is attainable: for
\* each of the rules usage_approaching, usage_exceeded and upgrade_opportunity
\* some row of the usage query makes the monitor trigger that rule (in a month
\* in which building the alert's metadata does not fail).
C24_EachClassAttainable ==
    ~days_remaining_raises(month) =>
       \A rule \in {"usage_approaching", "usage_exceeded", "upgrade_opportunity"} :
          \E row \in UsageRows : usage_rule(row) = rule

\* C25: in every month, a cycle whose usage query succeeded triggers
\* usage_approaching for every row with usage >= 80% and < 95% and usage_exceeded
\* for every row with usage >= 95%, whatever rows precede it.
C25_EveryRowEvaluated ==
    upc \in {"done", "failed"} =>
       \A i \in 1..Len(u_rows) :
          LET approaching == usage_at_least(u_rows[i], 80) /\ ~usage_at_least(u_rows[i], 95)
              exceeded    == usage_at_least(u_rows[i], 95)
              called(rule) == \E k \in 1..Len(u_triggered) :
                                 u_triggered[k].row = i /\ u_triggered[k].rule_id = rule
          IN  /\ approaching => called("usage_approaching")
              /\ exceeded => called("usage_exceeded")

\* C26: the avg_response_time that analyze_agent_performance returns is the
\* average over all the agent's events of the window, the sum of response_time_ms
\* divided by the number of events, however the events fall into hours and tiers.
C26_AverageOverAllEvents ==
    hpc = "done" /\ m_events # <<>> =>
       avg_response_time.num * Len(m_events)
          = avg_response_time.den * SumOver(m_events, "response_time_ms")

\* C27: across any sequence of start_monitoring and stop_monitoring calls every
\* monitor loop has at most one live task, so the notification queue has a
\* single consumer.
C27_OneTaskPerLoop ==
    \A l \in Loops : live_tasks(lpc[l]) <= 1

\* C28: a call of acknowledge_alert or resolve_alert that returns False, the
\* case of a failed database update for an active id included, leaves
\* acknowledged_at, acknowledged_by and resolved_at of every alert as they were.
C28_FailureLeavesAlertUnchanged ==
    [][ ((Acknowledge \/ Resolve) /\ ~ret'.ok) =>
           \A id \in 1..Len(alerts) :
              /\ alerts'[id].acknowledged_at = alerts[id].acknowledged_at
              /\ alerts'[id].acknowledged_by = alerts[id].acknowledged_by
              /\ alerts'[id].resolved_at = alerts[id].resolved_at ]_vars

\* C29: a call of _trigger_alert whose cooldown lookup fails creates the alert as
\* if the subject were not in cooldown, puts it in the active set and in the
\* history and goes on to the INSERT; when the call returns the alert is
\* enqueued, and stored when the INSERT succeeded.  No call with an unknown or
\* disabled rule gets as far as the lookup, and no alert has such a rule.
C29_LookupFailureFailsOpen ==
    /\ [][ \A t \in Callers :
              (TriggerCooldown(t) /\ db_errors' > db_errors) =>
                 /\ Len(alerts') = Len(alerts) + 1
                 /\ Len(alerts') \in Range(active_alerts')
                 /\ Len(alerts') \in Range(alert_history')
                 /\ talert'[t] = Len(alerts') /\ tpc'[t] = "save" ]_vars
    /\ [][ \A t \in Callers :
              TriggerSave(t) =>
                 /\ notification_queue'[Len(notification_queue')].alert = talert[t]
                 /\ Len(notification_queue') = Len(notification_queue) + 1
                 /\ db_errors' = db_errors =>
                       \E row \in usage_alerts' : row.id = talert[t] ]_vars
    /\ [](\A t \in Callers : tpc[t] # "idle" => rule_usable(targs[t].rule_id))
    /\ [](\A id \in 1..Len(alerts) : rule_usable(alerts[id].rule_id))

\* C29 witness: the first cooldown lookup of the run failed and the alert was
\* created all the same; its INSERT is pending
C29_Witness ==
    /\ db_errors = 1 /\ usage_alerts = {}
    /\ Len(alerts) = 1 /\ active_alerts = <<1>> /\ alert_history = <<1>>
    /\ tpc["m1"] = "save" /\ talert["m1"] = 1 /\ tpc["m2"] = "idle"

\* C30: the anomaly monitor is able to raise an alert: among the daily counts of
\* one agent over the dates of the 7-day lookback (3 to 8 dates) there are some
\* for which detect_usage_anomalies reports an anomaly of severity 'high'.
C30_HighSeverityAttainable ==
    apc = "idle" =>
       \E data \in DailyData :
          LET found == detect_usage_anomalies("NEXUS", data)
          IN  \E i \in 1..Len(found) : found[i].severity = "high"

====
